---- MODULE Spec2Model ----
(***************************************************************************)
(* A model of src/main.py: a Telegram bot that inspects a media link       *)
(* (handle_message), offers a menu of formats, and on a button press       *)
(* (button_click) downloads the chosen format, uploads it and deletes the  *)
(* local file.                                                             *)
(*                                                                         *)
(* Text is modelled as a sequence of one-character strings so that         *)
(* formatting (f-strings) and parsing (str.split) are computed, not        *)
(* assumed.  A format descriptor is modelled by its 'height' attribute     *)
(* alone (0 stands for a format with no height / height None).             *)
(*                                                                         *)
(* A handler is a coroutine: one action per awaited call, with the         *)
(* synchronous code that leads to it.  Invocations may interleave at every *)
(* await; handling the events one after the other (the framework's         *)
(* default) is among the behaviours.  Every call to the chat transport or  *)
(* to the extraction library may succeed or fail; a failed call has no     *)
(* effect.                                                                 *)
(***************************************************************************)
EXTENDS Integers, Sequences, FiniteSets, TLC

VARIABLES
    token,      \* TELEGRAM_BOT_TOKEN is set in the environment
    render,     \* RENDER is set in the environment
    web,        \* the liveness thread: "off" | "serving"
    main,       \* position of the __main__ block
    site,       \* what the extractor resolves the submitted link to
    hm_pc,      \* position of the handle_message invocation
    hm_status,  \* the "Checking link..." message of handle_message
    keyboard,   \* the keyboard built by handle_message
    menu,       \* the menu message: "none" | "shown" | "removed"
    hm_log,     \* external calls made by handle_message, with their outcomes
    pc,         \* position of each button_click invocation
    query,      \* query.data of each button_click invocation
    filename,   \* local variable filename of each invocation (<<>>: unbound)
    status,     \* the status message of each button_click invocation
    log,        \* external calls made by each invocation, with their outcomes
    files,      \* the downloads directory: path and the invocation that wrote it
    request,    \* the download request decoded from a payload (SpecPayload)
    size,       \* argument of human_readable_size, base-1024 digits (SpecSize)
    hrs,        \* what human_readable_size returned (<<>>: not called)
    update,     \* the update handed to the application (SpecDispatch)
    routed,     \* the handlers the application ran for the update
    http        \* requests answered by the liveness server, with the answers

vars == <<token, render, web, main, site, hm_pc, hm_status, keyboard, menu,
          hm_log, pc, query, filename, status, log, files, request,
         size, hrs, update, routed, http>>

-----------------------------------------------------------------------------
(* Bounds *)

\* longest format list the extractor returns in SpecMenu
MaxFormats == 6
\* longest content identifier in SpecPayload
MaxIdLen == 2

-----------------------------------------------------------------------------
(* Text *)

Digit == <<"0", "1", "2", "3", "4", "5", "6", "7", "8", "9">>

RECURSIVE IntToStr(_)
\* f"{res}" for a non-negative int
IntToStr(n) ==
    IF n < 10 THEN <<Digit[n + 1]>>
    ELSE IntToStr(n \div 10) \o <<Digit[(n % 10) + 1]>>

RECURSIVE SplitFrom(_, _, _)
\* str.split(sep) with an explicit separator: the pieces between separators,
\* empty pieces kept; cur is the piece being read
SplitFrom(s, sep, cur) ==
    IF s = <<>> THEN <<cur>>
    ELSE IF Head(s) = sep THEN <<cur>> \o SplitFrom(Tail(s), sep, <<>>)
    ELSE SplitFrom(Tail(s), sep, Append(cur, Head(s)))

Split(s, sep) == SplitFrom(s, sep, <<>>)

S_audio == <<"a", "u", "d", "i", "o">>
S_video == <<"v", "i", "d", "e", "o">>
Bar == "|"

\* the fixed URL template of button_click; the prefix is one token
UrlPrefix == <<"https://www.youtube.com/watch?v=">>

-----------------------------------------------------------------------------
(* handle_message: the keyboard *)

\* the limit on video buttons (len(seen_res) < 5)
MaxVideoButtons == 5

\* callback_data=f"audio|{info['id']}"
AudioData(id) == S_audio \o <<Bar>> \o id

\* callback_data=f"video|{info['id']}|{res}"
VideoData(id, res) == S_video \o <<Bar>> \o id \o <<Bar>> \o IntToStr(res)

AudioButton(id) == [text |-> <<"MP3 / Audio">>, data |-> AudioData(id)]

\* btn_text = f"{res}p"
VideoButton(id, res) ==
    [text |-> IntToStr(res) \o <<"p">>, data |-> VideoData(id, res)]

RECURSIVE InsertDesc(_, _)
\* x placed after every element >= x of a descending sequence (stable)
InsertDesc(x, s) ==
    IF s = <<>> THEN <<x>>
    ELSE IF Head(s) >= x THEN <<Head(s)>> \o InsertDesc(x, Tail(s))
    ELSE <<x>> \o s

RECURSIVE SortDesc(_)
\* sorted(..., key=height, reverse=True)
SortDesc(s) ==
    IF s = <<>> THEN <<>>
    ELSE InsertDesc(s[Len(s)], SortDesc(SubSeq(s, 1, Len(s) - 1)))

\* [f for f in formats if f.get('height')]
WithHeight(formats) == SelectSeq(formats, LAMBDA h : h # 0)

RECURSIVE AddVideoButtons_NoDedupe(_, _, _, _, _)
\* AddVideoButtons without the 'res not in seen_res' test
AddVideoButtons_NoDedupe(fs, k, kb, seen, id) ==
    IF k > Len(fs) THEN kb
    ELSE IF fs[k] # 0 /\ Len(kb) - 1 < MaxVideoButtons
         THEN AddVideoButtons_NoDedupe(fs, k + 1, Append(kb, VideoButton(id, fs[k])),
                                       seen \cup {fs[k]}, id)
         ELSE AddVideoButtons_NoDedupe(fs, k + 1, kb, seen, id)

RECURSIVE AddVideoButtons(_, _, _, _, _)
\* the loop over sorted_formats: kb is the keyboard so far, seen is seen_res
AddVideoButtons(fs, k, kb, seen, id) ==
    IF k > Len(fs) THEN kb
    ELSE IF fs[k] # 0 /\ fs[k] \notin seen /\ Cardinality(seen) < MaxVideoButtons
         THEN AddVideoButtons(fs, k + 1, Append(kb, VideoButton(id, fs[k])),
                              seen \cup {fs[k]}, id)
         ELSE AddVideoButtons(fs, k + 1, kb, seen, id)

\* Keyboard giving up when no format exposes a height
Keyboard_VideoRequired(info) ==
    IF WithHeight(info.formats) = <<>> THEN <<>>
    ELSE AddVideoButtons(SortDesc(WithHeight(info.formats)), 1,
                         <<AudioButton(info.id)>>, {}, info.id)

\* the keyboard handle_message builds from the extractor's info
Keyboard(info) ==
    AddVideoButtons(SortDesc(WithHeight(info.formats)), 1,
                    <<AudioButton(info.id)>>, {}, info.id)

-----------------------------------------------------------------------------
(* button_click: the request decoded from a payload *)

\* data = query.data.split('|')
Data(payload) == Split(payload, Bar)

\* type_ = data[0]
Type(payload) == Data(payload)[1]

\* vid_id = data[1]
VidId(payload) == Data(payload)[2]

\* url = f"https://www.youtube.com/watch?v={vid_id}"
Url(payload) == UrlPrefix \o VidId(payload)

\* the 'format' and 'outtmpl' options for the payload; res = data[2]
YdlOpts(payload) ==
    IF Type(payload) = S_audio
    THEN [format |-> "bestaudio/best", height |-> <<>>,
          outtmpl |-> "downloads/%(id)s.%(ext)s", mp3 |-> TRUE, merge |-> FALSE]
    ELSE IF Type(payload) = S_video
    THEN [format |-> "bestvideo[height={res}]+bestaudio/best[height={res}]/best",
          height |-> Data(payload)[3],
          outtmpl |-> "downloads/%(id)s_%(height)s.%(ext)s",
          mp3 |-> FALSE, merge |-> TRUE]
    ELSE [format |-> "default", height |-> <<>>,
          outtmpl |-> "downloads/%(id)s_%(height)s.%(ext)s",
          mp3 |-> FALSE, merge |-> FALSE]

\* the download request button_click reconstructs from query.data
Request(payload) ==
    [type |-> Type(payload), url |-> Url(payload), opts |-> YdlOpts(payload)]

\* no payload decoded yet; a decoded request r is held as <<r>>
NoRequest == <<>>

-----------------------------------------------------------------------------
(* button_click: the downloaded file *)

\* heights the extractor may find for the video when the download runs
DownloadHeights == {720, 1080}

\* the non-empty sets of heights available when the download runs
Availabilities == (SUBSET DownloadHeights) \ {{}}

SetMax(hs) == CHOOSE h \in hs : \A g \in hs : g <= h

\* the height the selector 'bestvideo[height=R]+bestaudio/best[height=R]/best'
\* ends with: R when a stream of exactly that height is available, else the
\* height of the generic best format
SelectHeight(res, avail) ==
    IF \E h \in avail : IntToStr(h) = res
    THEN CHOOSE h \in avail : IntToStr(h) = res
    ELSE SetMax(avail)

\* 'downloads/%(id)s.%(ext)s' after the mp3 post-processor
AudioPath(id) == <<"downloads/">> \o id \o <<".", "mp3">>

\* 'downloads/%(id)s_%(height)s.%(ext)s' with merge_output_format mp4
VideoPath(id, h) == <<"downloads/">> \o id \o <<"_">> \o IntToStr(h) \o <<".", "mp4">>

\* the file the download of the payload writes
OutputPath(payload, avail) ==
    IF Type(payload) = S_audio THEN AudioPath(VidId(payload))
    ELSE IF Type(payload) = S_video
    THEN VideoPath(VidId(payload), SelectHeight(Data(payload)[3], avail))
    ELSE VideoPath(VidId(payload), SetMax(avail))

\* filename.rsplit('.', 1)[0]: what precedes the last ".", the whole name
\* when it has none
DropExt(s) ==
    LET dots == {j \in DOMAIN s : s[j] = "."}
    IN  IF dots = {} THEN s
        ELSE SubSeq(s, 1, (CHOOSE j \in dots : \A k \in dots : k <= j) - 1)

\* the local variable filename after the download: the library's record
\* (info['requested_downloads'][0]['filepath']) when rd, else derived from
\* prepare_filename(info), with the extension rewritten for audio
Filename(payload, avail, rd) ==
    IF rd THEN OutputPath(payload, avail)
    ELSE IF Type(payload) = S_audio
    THEN DropExt(OutputPath(payload, avail)) \o <<".", "mp3">>
    ELSE OutputPath(payload, avail)

\* os.path.exists(path)
Exists(fs, path) == \E f \in fs : f.path = path

\* os.remove(path)
Removed(fs, path) == {f \in fs : f.path # path}

\* the download of invocation i writing path
Written(fs, path, i) == Removed(fs, path) \cup {[path |-> path, by |-> i]}

-----------------------------------------------------------------------------
(* State *)

\* the button_click invocations of one behaviour: two button-press events,
\* whose handling may interleave at every await
Clicks == {1, 2}

\* the content identifier of the link submitted in Spec
SampleId == <<"a", "b", "c">>

\* format lists (heights) of the link submitted in Spec
SampleFormats == {<<0>>, <<720, 1080, 720>>}

MainSites ==
    {[id |-> SampleId, formats |-> fs, thumb |-> t] :
        fs \in SampleFormats, t \in BOOLEAN}

\* the state of the handlers before any event
Idle ==
    /\ hm_pc = "idle"
    /\ hm_status = "none"
    /\ keyboard = <<>>
    /\ menu = "none"
    /\ hm_log = <<>>
    /\ pc = [i \in Clicks |-> "idle"]
    /\ query = [i \in Clicks |-> <<>>]
    /\ filename = [i \in Clicks |-> <<>>]
    /\ status = [i \in Clicks |-> "none"]
    /\ log = [i \in Clicks |-> <<>>]
    /\ files = {}
    /\ request = NoRequest

NoUpdate == [kind |-> "none", text |-> <<>>]

\* nothing formatted, dispatched or answered
AuxIdle ==
    /\ size = <<0>>
    /\ hrs = <<>>
    /\ update = NoUpdate
    /\ routed = [done |-> FALSE, to |-> {}]
    /\ http = <<>>

\* the process after the module-level code (TOKEN read, its absence printed)
Init ==
    /\ token \in BOOLEAN
    /\ render \in BOOLEAN
    /\ web = "off"
    /\ main = "start"
    /\ site \in MainSites
    /\ Idle
    /\ AuxIdle

-----------------------------------------------------------------------------
(* __main__ *)

env == <<token, render, site>>

\* the state of the size formatter, the dispatcher and the liveness server
aux == <<size, hrs, update, routed, http>>
hmVars == <<hm_pc, hm_status, keyboard, menu, hm_log>>
bcVars == <<pc, query, filename, status, log, files>>

\* if os.getenv("RENDER"): start the liveness thread
MainStartWeb ==
    /\ main = "start"
    /\ web' = IF render THEN "serving" ELSE web
    /\ main' = "build"
    /\ UNCHANGED <<env, aux, hmVars, bcVars, request>>

\* Application.builder().token(TOKEN).build(), then the three add_handler
\* calls.  The code itself goes on without a token; whether build() raises
\* for a missing one (the process then exits, and its daemon thread with
\* it) is the library's choice.
MainBuild ==
    /\ main = "build"
    /\ \E raises \in {b \in BOOLEAN : b => ~token} :
        /\ main' = IF raises THEN "crashed" ELSE "run"
        /\ web' = IF raises THEN "off" ELSE web
    /\ UNCHANGED <<env, aux, hmVars, bcVars, request>>

\* application.run_polling()
MainRunPolling ==
    /\ main = "run"
    /\ main' = "polling"
    /\ UNCHANGED <<env, aux, web, hmVars, bcVars, request>>

-----------------------------------------------------------------------------
(* handle_message *)

\* an external call and its outcome, appended to a log
Logged(l, call, ok) == Append(l, <<call, IF ok THEN "ok" ELSE "fail">>)

\* the text message arrives; status_msg = await reply_text("Checking link...")
\* is outside the try block
HM_ReplyChecking ==
    /\ main = "polling"
    /\ hm_pc = "idle"
    /\ \E ok \in BOOLEAN :
        /\ hm_log' = Logged(hm_log, "reply_checking", ok)
        /\ hm_status' = IF ok THEN "checking" ELSE hm_status
        /\ hm_pc' = IF ok THEN "extract" ELSE "raised"
    /\ UNCHANGED <<env, aux, web, main, keyboard, menu, bcVars, request>>

\* HM_Extract with the extraction outside the try block's effect: a failed
\* extraction goes on to send the menu
HM_Extract_Uncaught ==
    /\ hm_pc = "extract"
    /\ \E ok \in BOOLEAN :
        /\ hm_log' = Logged(hm_log, "extract_info", ok)
        /\ keyboard' = Keyboard(site)
        /\ hm_pc' = "send_menu"
    /\ UNCHANGED <<env, aux, web, main, hm_status, menu, bcVars, request>>

\* ydl.extract_info(url, download=False) and the building of the keyboard
HM_Extract ==
    /\ hm_pc = "extract"
    /\ \E ok \in BOOLEAN :
        /\ hm_log' = Logged(hm_log, "extract_info", ok)
        /\ keyboard' = IF ok THEN Keyboard(site) ELSE keyboard
        /\ hm_pc' = IF ok THEN "send_menu" ELSE "except"
    /\ UNCHANGED <<env, aux, web, main, hm_status, menu, bcVars, request>>

\* reply_photo (thumbnail present) or reply_text, with reply_markup
HM_SendMenu ==
    /\ hm_pc = "send_menu"
    /\ \E ok \in BOOLEAN :
        /\ hm_log' = Logged(hm_log, IF site.thumb THEN "reply_photo_menu"
                                    ELSE "reply_text_menu", ok)
        /\ menu' = IF ok THEN "shown" ELSE menu
        /\ hm_pc' = IF ok THEN "delete_status" ELSE "except"
    /\ UNCHANGED <<env, aux, web, main, hm_status, keyboard, bcVars, request>>

\* await status_msg.delete()
HM_DeleteStatus ==
    /\ hm_pc = "delete_status"
    /\ \E ok \in BOOLEAN :
        /\ hm_log' = Logged(hm_log, "delete_status", ok)
        /\ hm_status' = IF ok THEN "deleted" ELSE hm_status
        /\ hm_pc' = IF ok THEN "done" ELSE "except"
    /\ UNCHANGED <<env, aux, web, main, keyboard, menu, bcVars, request>>

\* except Exception: await status_msg.edit_text("Error: ...")
HM_Except ==
    /\ hm_pc = "except"
    /\ \E ok \in BOOLEAN :
        /\ hm_log' = Logged(hm_log, "edit_failed", ok)
        /\ hm_status' = IF ok THEN "failed" ELSE hm_status
        /\ hm_pc' = IF ok THEN "done" ELSE "raised"
    /\ UNCHANGED <<env, aux, web, main, keyboard, menu, bcVars, request>>

-----------------------------------------------------------------------------
(* button_click *)

\* invocation i moves to position p with call logged
Step(i, p, call, ok) ==
    /\ pc' = [pc EXCEPT ![i] = p]
    /\ log' = [log EXCEPT ![i] = Logged(@, call, ok)]

\* invocation i moves to position p with call logged and, when rm, the
\* os.remove(filename) that follows it
StepRemove(i, p, call, ok, rm) ==
    /\ pc' = [pc EXCEPT ![i] = p]
    /\ log' = [log EXCEPT ![i] =
                  IF rm THEN Append(Logged(@, call, ok), <<"os.remove", "ok">>)
                  ELSE Logged(@, call, ok)]

\* a button of the shown menu is pressed: the dispatcher starts invocation i
\* with query.data the button's callback_data
Press(i) ==
    /\ main = "polling"
    /\ menu = "shown"
    /\ pc[i] = "idle"
    /\ \A j \in Clicks : j < i => pc[j] # "idle"
    /\ \E b \in 1..Len(keyboard) :
        query' = [query EXCEPT ![i] = keyboard[b].data]
    /\ pc' = [pc EXCEPT ![i] = "answer"]
    /\ UNCHANGED <<env, aux, web, main, hmVars, filename, status, log, files, request>>

\* await query.answer(), outside the try block
BC_Answer(i) ==
    /\ pc[i] = "answer"
    /\ \E ok \in BOOLEAN :
        Step(i, IF ok THEN "remove_menu" ELSE "raised", "answer", ok)
    /\ UNCHANGED <<env, aux, web, main, hmVars, query, filename, status, files, request>>

\* BC_RemoveMenu with a failed menu removal swallowed
BC_RemoveMenu_Swallowed(i) ==
    /\ pc[i] = "remove_menu"
    /\ \E ok \in BOOLEAN :
        /\ Step(i, "post_status", "remove_menu", ok)
        /\ menu' = IF ok THEN "removed" ELSE menu
    /\ UNCHANGED <<env, aux, web, main, hm_pc, hm_status, keyboard, hm_log,
                   query, filename, status, files, request>>

\* data, type_, vid_id, url, then await query.edit_message_reply_markup(None),
\* outside the try block; data[1] raises IndexError for a payload with no '|'
BC_RemoveMenu(i) ==
    /\ pc[i] = "remove_menu"
    /\ IF Len(Data(query[i])) < 2
       THEN /\ Step(i, "raised", "data[1]", FALSE)
            /\ menu' = menu
       ELSE \E ok \in BOOLEAN :
            /\ Step(i, IF ok THEN "post_status" ELSE "raised", "remove_menu", ok)
            /\ menu' = IF ok THEN "removed" ELSE menu
    /\ UNCHANGED <<env, aux, web, main, hm_pc, hm_status, keyboard, hm_log,
                   query, filename, status, files, request>>

\* status_msg = await reply_text("Downloading ..."), outside the try block
BC_PostStatus(i) ==
    /\ pc[i] = "post_status"
    /\ \E ok \in BOOLEAN :
        /\ Step(i, IF ok THEN "download" ELSE "raised", "post_status", ok)
        /\ status' = [status EXCEPT ![i] = IF ok THEN "downloading" ELSE @]
    /\ UNCHANGED <<env, aux, web, main, hmVars, query, filename, files, request>>

\* the options, ydl.extract_info(url, download=True) and the filename; the
\* call blocks, so nothing interleaves with it; data[2] raises IndexError for
\* a video payload with two pieces
BC_Download(i) ==
    /\ pc[i] = "download"
    /\ IF Type(query[i]) = S_video /\ Len(Data(query[i])) < 3
       THEN /\ Step(i, "except", "data[2]", FALSE)
            /\ UNCHANGED <<filename, files>>
       ELSE \E ok \in BOOLEAN, avail \in Availabilities, rd \in BOOLEAN :
            /\ Step(i, IF ok THEN "edit_uploading" ELSE "except", "download", ok)
            /\ files' = IF ok
                        THEN Written(files, OutputPath(query[i], avail), i)
                        ELSE files
            /\ filename' = [filename EXCEPT ![i] =
                               IF ok THEN Filename(query[i], avail, rd) ELSE @]
    /\ UNCHANGED <<env, aux, web, main, hmVars, query, status, request>>

\* BC_EditUploading with a failed edit swallowed: the file is opened and
\* the upload goes ahead
BC_EditUploading_Swallowed(i) ==
    /\ pc[i] = "edit_uploading"
    /\ \E ok \in BOOLEAN :
        LET opened == Exists(files, filename[i])
        IN  /\ pc' = [pc EXCEPT ![i] = IF opened THEN "upload" ELSE "except"]
            /\ log' = [log EXCEPT ![i] =
                          IF opened THEN Logged(@, "edit_uploading", ok)
                          ELSE Logged(Logged(@, "edit_uploading", ok),
                                      "open", FALSE)]
            /\ status' = [status EXCEPT ![i] = IF ok THEN "uploading" ELSE @]
    /\ UNCHANGED <<env, aux, web, main, hmVars, query, filename, files, request>>

\* await status_msg.edit_text("Uploading to Telegram..."); when it returns,
\* open(filename, 'rb'), which raises when the file is gone, and the call of
\* reply_audio(...) or reply_video(...) up to its await
BC_EditUploading(i) ==
    /\ pc[i] = "edit_uploading"
    /\ \E ok \in BOOLEAN :
        LET opened == ok /\ Exists(files, filename[i])
        IN  /\ pc' = [pc EXCEPT ![i] = IF opened THEN "upload" ELSE "except"]
            /\ log' = [log EXCEPT ![i] =
                          IF ok /\ ~opened
                          THEN Logged(Logged(@, "edit_uploading", TRUE),
                                      "open", FALSE)
                          ELSE Logged(@, "edit_uploading", ok)]
            /\ status' = [status EXCEPT ![i] = IF ok THEN "uploading" ELSE @]
    /\ UNCHANGED <<env, aux, web, main, hmVars, query, filename, files, request>>

\* BC_Upload with the upload outside the try block: a failure propagates
BC_Upload_Uncaught(i) ==
    /\ pc[i] = "upload"
    /\ \E ok \in BOOLEAN :
        Step(i, IF ok THEN "delete_status" ELSE "raised",
             IF Type(query[i]) = S_audio THEN "reply_audio" ELSE "reply_video",
             ok)
    /\ UNCHANGED <<env, aux, web, main, hmVars, query, filename, status, files, request>>

\* the awaited reply_audio(...) or reply_video(...) returns or raises; the
\* file is open, whatever has happened to its path since
BC_Upload(i) ==
    /\ pc[i] = "upload"
    /\ \E ok \in BOOLEAN :
        Step(i, IF ok THEN "delete_status" ELSE "except",
             IF Type(query[i]) = S_audio THEN "reply_audio" ELSE "reply_video",
             ok)
    /\ UNCHANGED <<env, aux, web, main, hmVars, query, filename, status, files, request>>

\* BC_DeleteStatus with a failed delete swallowed: the handler goes on to
\* remove the file and returns
BC_DeleteStatus_Swallowed(i) ==
    /\ pc[i] = "delete_status"
    /\ \E ok \in BOOLEAN :
        /\ StepRemove(i, "done", "delete_status", ok, Exists(files, filename[i]))
        /\ status' = [status EXCEPT ![i] = IF ok THEN "deleted" ELSE @]
        /\ files' = Removed(files, filename[i])
    /\ UNCHANGED <<env, aux, web, main, hmVars, query, filename, request>>

\* await status_msg.delete(), then os.remove(filename) if it exists
BC_DeleteStatus(i) ==
    /\ pc[i] = "delete_status"
    /\ \E ok \in BOOLEAN :
        /\ StepRemove(i, IF ok THEN "done" ELSE "except", "delete_status", ok,
                      ok /\ Exists(files, filename[i]))
        /\ status' = [status EXCEPT ![i] = IF ok THEN "deleted" ELSE @]
        /\ files' = IF ok THEN Removed(files, filename[i]) ELSE files
    /\ UNCHANGED <<env, aux, web, main, hmVars, query, filename, request>>

\* BC_Except without the cleanup of the local file
BC_Except_NoCleanup(i) ==
    /\ pc[i] = "except"
    /\ \E ok \in BOOLEAN :
        /\ Step(i, IF ok THEN "done" ELSE "raised", "edit_failed", ok)
        /\ status' = [status EXCEPT ![i] = IF ok THEN "failed" ELSE @]
    /\ UNCHANGED <<env, aux, web, main, hmVars, query, filename, files, request>>

\* except Exception: await status_msg.edit_text("Download failed: ..."), then
\* os.remove(filename) if filename is bound and the file exists
BC_Except(i) ==
    /\ pc[i] = "except"
    /\ \E ok \in BOOLEAN :
        /\ StepRemove(i, IF ok THEN "done" ELSE "raised", "edit_failed", ok,
                      ok /\ filename[i] # <<>> /\ Exists(files, filename[i]))
        /\ status' = [status EXCEPT ![i] = IF ok THEN "failed" ELSE @]
        /\ files' = IF ok /\ filename[i] # <<>>
                    THEN Removed(files, filename[i])
                    ELSE files
    /\ UNCHANGED <<env, aux, web, main, hmVars, query, filename, request>>

-----------------------------------------------------------------------------
(* The process *)

Next ==
    \/ MainStartWeb
    \/ MainBuild
    \/ MainRunPolling
    \/ HM_ReplyChecking
    \/ HM_Extract
    \/ HM_SendMenu
    \/ HM_DeleteStatus
    \/ HM_Except
    \/ \E i \in Clicks : Press(i)
    \/ \E i \in Clicks : BC_Answer(i)
    \/ \E i \in Clicks : BC_RemoveMenu(i)
    \/ \E i \in Clicks : BC_PostStatus(i)
    \/ \E i \in Clicks : BC_Download(i)
    \/ \E i \in Clicks : BC_EditUploading(i)
    \/ \E i \in Clicks : BC_Upload(i)
    \/ \E i \in Clicks : BC_DeleteStatus(i)
    \/ \E i \in Clicks : BC_Except(i)

Spec == Init /\ [][Next]_vars

-----------------------------------------------------------------------------
(* The keyboard as a function of the format list (SpecMenu) and the payload
   round trip (SpecPayload) *)

\* heights a format may expose; 0: none
HeightValues == {0, 144, 240, 480, 720, 1080, 2160}

\* the format list of the specification's example
ExampleFormats == <<144, 240, 240, 480, 1080, 1080, 2160>>

FormatLists ==
    UNION {[1..n -> HeightValues] : n \in 0..MaxFormats} \cup {ExampleFormats}

MenuSites == {[id |-> SampleId, formats |-> fs, thumb |-> FALSE] : fs \in FormatLists}

\* characters of a content identifier
IdChars == {"a", "b", Bar}

\* the non-empty identifiers of at most MaxIdLen characters
Ids == UNION {[1..n -> IdChars] : n \in 1..MaxIdLen}

PayloadSites ==
    {[id |-> id, formats |-> <<h>>, thumb |-> FALSE] :
        id \in Ids, h \in HeightValues \ {0}}

InitMenu ==
    /\ token = TRUE
    /\ render = FALSE
    /\ web = "off"
    /\ main = "polling"
    /\ site \in MenuSites
    /\ Idle
    /\ AuxIdle

InitPayload ==
    /\ token = TRUE
    /\ render = FALSE
    /\ web = "off"
    /\ main = "polling"
    /\ site \in PayloadSites
    /\ Idle
    /\ AuxIdle

\* handle_message builds the keyboard for the site
MenuBuild ==
    /\ hm_pc = "idle"
    /\ keyboard' = Keyboard(site)
    /\ hm_pc' = "send_menu"
    /\ UNCHANGED <<env, aux, web, main, hm_status, menu, hm_log, bcVars, request>>

\* button_click decodes the callback_data of button b
Decode(b) ==
    /\ hm_pc = "send_menu"
    /\ b \in 1..Len(keyboard)
    /\ request = NoRequest
    /\ request' = <<b, Request(keyboard[b].data)>>
    /\ UNCHANGED <<env, aux, web, main, hmVars, bcVars>>

NextMenu == MenuBuild

NextPayload ==
    \/ MenuBuild
    \/ \E b \in 1..(MaxVideoButtons + 1) : Decode(b)

SpecMenu == InitMenu /\ [][NextMenu]_vars

SpecPayload == InitPayload /\ [][NextPayload]_vars

-----------------------------------------------------------------------------
(* Properties *)

\* the invocation has ended: it returned ("done") or an exception left it
Ended(i) == pc[i] \in {"done", "raised"}

InFlight(i) == pc[i] \notin {"idle", "done", "raised"}

HmEnded == hm_pc \in {"done", "raised"}

Has(l, call, outcome) == \E k \in DOMAIN l : l[k] = <<call, outcome>>

Called(l, call) == \E k \in DOMAIN l : l[k][1] = call

Failures(l) == {k \in DOMAIN l : l[k][2] = "fail"}

\* the one call that failed, for a log with exactly one failure
FailedCall(l) == l[CHOOSE k \in DOMAIN l : l[k][2] = "fail"][1]

UploadFailed(i) == Has(log[i], "reply_audio", "fail") \/ Has(log[i], "reply_video", "fail")

OwnFiles(i) == {f \in files : f.by = i}

\* C1: once a button_click invocation has ended, whatever the outcomes of
\* its download, upload and status edits/deletes, no file it created is left
\* in the downloads directory, and with no invocation in flight the directory
\* is empty.
C1_NoFileRemains ==
    /\ \A i \in Clicks : Ended(i) => OwnFiles(i) = {}
    /\ (\A i \in Clicks : ~InFlight(i)) => files = {}

\* C2: when the download succeeded and the upload failed, the status message
\* is never deleted (the success state); the invocation ends returning
\* normally exactly when the failure notice was delivered, and then the
\* status message shows the failure notice and the local file is deleted;
\* with the upload the only failed call that is how the invocation ends.
C2_UploadFailure ==
    \A i \in Clicks :
        (Has(log[i], "download", "ok") /\ UploadFailed(i)) =>
            /\ status[i] # "deleted"
            /\ pc[i] = "done" =>
                (status[i] = "failed" /\ OwnFiles(i) = {} /\ filename[i] # <<>>)
            /\ (Ended(i) /\ Cardinality(Failures(log[i])) = 1) => pc[i] = "done"

\* C2 witness: a video download succeeded, the upload alone failed, the
\* invocation returned with the failure notice shown and the file gone.
C2_Witness ==
    \E i \in Clicks :
        /\ pc[i] = "done"
        /\ Has(log[i], "download", "ok")
        /\ Has(log[i], "reply_video", "fail")
        /\ Cardinality(Failures(log[i])) = 1
        /\ status[i] = "failed"
        /\ ~Exists(files, filename[i])

\* calls the handlers make before their try block
PreTryCalls == {"reply_checking", "answer", "remove_menu", "data[1]", "post_status"}

\* C3 as claimed: with exactly one failed call in a handler invocation, the
\* invocation returns normally and its status message shows the failure
\* notice.
C3_NothingPropagates ==
    /\ (HmEnded /\ Cardinality(Failures(hm_log)) = 1) =>
            (hm_pc = "done" /\ hm_status = "failed")
    /\ \A i \in Clicks :
        (Ended(i) /\ Cardinality(Failures(log[i])) = 1) =>
            (pc[i] = "done" /\ status[i] = "failed")

\* C3 amended: with exactly one failed call, made inside the try block, the
\* invocation returns normally and its status message shows the failure
\* notice; a single failure of a call made before the try block propagates
\* out of the handler and no failure notice is shown.
C3_CaughtInsideTry ==
    /\ (HmEnded /\ Cardinality(Failures(hm_log)) = 1) =>
            IF FailedCall(hm_log) \in PreTryCalls
            THEN hm_pc = "raised" /\ hm_status # "failed"
            ELSE hm_pc = "done" /\ hm_status = "failed"
    /\ \A i \in Clicks :
        (Ended(i) /\ Cardinality(Failures(log[i])) = 1) =>
            IF FailedCall(log[i]) \in PreTryCalls
            THEN pc[i] = "raised" /\ status[i] # "failed"
            ELSE pc[i] = "done" /\ status[i] = "failed"

\* C3 witness: both handlers caught a failure inside their try block; the
\* button_click invocation had the upload as its only failed call.
C3_Witness ==
    /\ hm_pc = "done"
    /\ Failures(hm_log) # {}
    /\ hm_status = "failed"
    /\ \E i \in Clicks :
        /\ pc[i] = "done"
        /\ Cardinality(Failures(log[i])) = 1
        /\ UploadFailed(i)
        /\ status[i] = "failed"

MenuCalls == {"reply_photo_menu", "reply_text_menu"}

\* C4: when the metadata extraction failed, no menu message is sent at any
\* point of the invocation; the invocation ends returning normally exactly
\* when the edit of the "checking" message was delivered, and then that
\* message shows the failure notice; with the extraction the only failed
\* call that is how the invocation ends.
C4_ExtractionFailure ==
    Has(hm_log, "extract_info", "fail") =>
        /\ menu = "none"
        /\ \A c \in MenuCalls : ~Called(hm_log, c)
        /\ hm_pc = "done" => hm_status = "failed"
        /\ (HmEnded /\ Cardinality(Failures(hm_log)) = 1) => hm_pc = "done"

\* C4 witness: the extraction failed and the "checking" message shows the
\* failure notice, with no menu sent.
C4_Witness ==
    /\ Has(hm_log, "extract_info", "fail")
    /\ hm_pc = "done"
    /\ hm_status = "failed"
    /\ menu = "none"

\* the keyboard has been built by handle_message
Built == hm_pc \in {"send_menu", "delete_status"} \/ menu # "none"

\* C5: the request decoded from the payload of a button names the button's
\* kind, the canonical URL of exactly the site's content identifier and, for
\* a video button, exactly the offered height.
C5_RoundTrip ==
    request # NoRequest =>
        LET r == request[2] IN
        /\ r.url = UrlPrefix \o site.id
        /\ IF request[1] = 1
           THEN r.type = S_audio
           ELSE /\ r.type = S_video
                /\ r.opts.height = IntToStr(site.formats[1])

\* the (at most 5) highest distinct heights of a format list
Offered(fs) ==
    LET hs == {fs[k] : k \in DOMAIN fs} \ {0}
    IN  {h \in hs : Cardinality({g \in hs : g > h}) < 5}

\* C6: the video buttons of the keyboard are exactly the (at most 5) highest
\* distinct heights of the format list, in strictly descending order, each
\* once; for the example list they are 2160, 1080, 480, 240, 144.
C6_VideoButtons ==
    Built =>
        LET off == Offered(site.formats) IN
        /\ Len(keyboard) = 1 + Cardinality(off)
        /\ \A j \in 1..Cardinality(off) :
            \E h \in off :
                /\ Cardinality({g \in off : g > h}) = j - 1
                /\ keyboard[j + 1] = VideoButton(site.id, h)
        /\ site.formats = ExampleFormats =>
            [j \in 1..5 |-> keyboard[j + 1].text] =
                << <<"2", "1", "6", "0", "p">>, <<"1", "0", "8", "0", "p">>,
                   <<"4", "8", "0", "p">>, <<"2", "4", "0", "p">>,
                   <<"1", "4", "4", "p">> >>

\* C6 witness: the keyboard built for the example list, with five video buttons.
C6_Witness ==
    /\ Built
    /\ site.formats = ExampleFormats
    /\ Len(keyboard) = 6

\* C7: every keyboard that handle_message builds holds exactly one audio
\* button; when no format of the list exposes a height the keyboard is that
\* one button and no video button.
C7_OneAudioButton ==
    Built =>
        /\ Cardinality({k \in DOMAIN keyboard : Type(keyboard[k].data) = S_audio}) = 1
        /\ keyboard[1] = AudioButton(site.id)
        /\ (\A k \in DOMAIN site.formats : site.formats[k] = 0) =>
                keyboard = <<AudioButton(site.id)>>

\* C7 witness: the keyboard built for a list whose formats expose no height.
C7_Witness ==
    /\ Built
    /\ site.formats = <<0, 0>>
    /\ Len(keyboard) = 1

\* C8: two button_click invocations in flight whose requests differ never
\* hold the same local file path.
C8_DistinctPaths ==
    \A i, j \in Clicks :
        (/\ i # j
         /\ InFlight(i) /\ InFlight(j)
         /\ filename[i] # <<>> /\ filename[j] # <<>>
         /\ Request(query[i]) # Request(query[j])) =>
            filename[i] # filename[j]

\* C9 as claimed: at most one download is started from the menu.
C9_AtMostOneDownload ==
    Cardinality({i \in Clicks : Called(log[i], "download")}) <= 1

\* C9 amended: each button-press event starts at most one download, and it
\* starts it only after its own menu-removal call succeeded, so the menu is
\* removed whenever a download has been started.
C9_DownloadAfterRemoval ==
    \A i \in Clicks :
        /\ Cardinality({k \in DOMAIN log[i] : log[i][k][1] = "download"}) <= 1
        /\ \A k \in DOMAIN log[i] :
            log[i][k][1] = "download" =>
                /\ menu = "removed"
                /\ \E m \in 1..(k - 1) : log[i][m] = <<"remove_menu", "ok">>

\* C9 witness: both button-press events on the one menu had their download run.
C9_Witness ==
    /\ \A i \in Clicks : Has(log[i], "download", "ok")
    /\ menu = "removed"

\* C10: with the token missing, the liveness thread is never started and the
\* polling loop never runs.
C10_NoServiceWithoutToken ==
    ~token => (web = "off" /\ main # "polling")

-----------------------------------------------------------------------------
(* Properties of the end states and of the order of the steps *)

MenuSent == \E c \in MenuCalls : Has(hm_log, c, "ok")

\* C14, for an invocation that returned: exactly one of (a) a menu message
\* was sent and the "checking" message removed, (b) the "checking" message
\* shows the failure notice and no menu message was sent.
C14_MenuXorNotice ==
    hm_pc = "done" =>
        \/ (MenuSent /\ hm_status = "deleted")
        \/ (~MenuSent /\ hm_status = "failed")

UploadOk(i) == Has(log[i], "reply_audio", "ok") \/ Has(log[i], "reply_video", "ok")

Posted(i) == Has(log[i], "post_status", "ok")

\* C15 as claimed: at the end of an invocation that posted a status message,
\* the message is deleted when the upload succeeded and shows the failure
\* notice otherwise.
C15_DeletedOrFailed ==
    \A i \in Clicks :
        (Ended(i) /\ Posted(i)) =>
            IF UploadOk(i) THEN status[i] = "deleted" ELSE status[i] = "failed"

\* C15 amended: at the end of an invocation that posted a status message,
\* the message is deleted exactly when the upload and the status delete
\* both succeeded; when the invocation returned the message is deleted or
\* shows the failure notice; it still shows "Downloading" or "Uploading"
\* exactly when the failure-notice edit failed, and then the exception left
\* the handler.
C15_EndStatus ==
    \A i \in Clicks :
        (Ended(i) /\ Posted(i)) =>
            /\ status[i] = "deleted" <=>
                (UploadOk(i) /\ Has(log[i], "delete_status", "ok"))
            /\ pc[i] = "done" => status[i] \in {"deleted", "failed"}
            /\ status[i] \in {"downloading", "uploading"} <=>
                Has(log[i], "edit_failed", "fail")
            /\ Has(log[i], "edit_failed", "fail") => pc[i] = "raised"

\* C15 witness: the upload succeeded, the status delete failed, and the
\* invocation returned with the failure notice shown.
C15_Witness ==
    \E i \in Clicks :
        /\ pc[i] = "done"
        /\ UploadOk(i)
        /\ Has(log[i], "delete_status", "fail")
        /\ status[i] = "failed"

\* entry k of log l is preceded by the entry <<call, outcome>>
Before(l, k, call, outcome) == \E m \in 1..(k - 1) : l[m] = <<call, outcome>>

UploadCalls == {"reply_audio", "reply_video"}

\* the steps before the removal of the local file, common to both versions
\* of C16: the download after the acknowledgement and the menu removal, the
\* upload after the download and the "uploading" edit, the status delete
\* after the successful upload
OrderedUpToDelete(l) ==
    \A k \in DOMAIN l :
        /\ l[k][1] = "download" =>
            /\ Before(l, k, "answer", "ok")
            /\ Before(l, k, "remove_menu", "ok")
        /\ l[k][1] \in UploadCalls =>
            \E d \in 1..(k - 1) :
                /\ l[d] = <<"download", "ok">>
                /\ \E e \in (d + 1)..(k - 1) : l[e] = <<"edit_uploading", "ok">>
        /\ l[k] = <<"delete_status", "ok">> =>
            \E u \in UploadCalls : Before(l, k, u, "ok")

\* C16 as claimed: the steps of an invocation occur in order, and the local
\* file is removed only after the upload was attempted.
C16_RemoveAfterUpload ==
    \A i \in Clicks :
        /\ OrderedUpToDelete(log[i])
        /\ \A k \in DOMAIN log[i] :
            log[i][k][1] = "os.remove" =>
                \E m \in 1..(k - 1) : log[i][m][1] \in UploadCalls

\* C16 amended: the steps of an invocation occur in order, and the local
\* file is removed only after the download completed and either the upload
\* was attempted or the "uploading" edit failed (the cleanup of the except
\* block), never between the start and the end of the upload.
C16_StepOrder ==
    \A i \in Clicks :
        /\ OrderedUpToDelete(log[i])
        /\ \A k \in DOMAIN log[i] :
            log[i][k][1] = "os.remove" =>
                /\ Before(log[i], k, "download", "ok")
                /\ \/ \E m \in 1..(k - 1) : log[i][m][1] \in UploadCalls
                   \/ Before(log[i], k, "edit_uploading", "fail")
                /\ log[i][k - 1][1] \in {"delete_status", "edit_failed"}

\* C16 witness: one invocation ran every step to the removal of its file
\* after a successful upload, the other removed its file in the cleanup
\* after a failed "uploading" edit.
C16_Witness ==
    \E i, j \in Clicks :
        /\ Has(log[i], "delete_status", "ok")
        /\ log[i][Len(log[i])] = <<"os.remove", "ok">>
        /\ Has(log[j], "edit_uploading", "fail")
        /\ log[j][Len(log[j])] = <<"os.remove", "ok">>

-----------------------------------------------------------------------------
(* human_readable_size.  A byte count is a sequence of base-1024 digits,
   least significant first, so that a division by 1024.0 moves the point by
   one digit and counts of 1024 TB and above stay within the integers. *)

MaxSizeDigits == 6

Base == 1024

DigitVals == {0, 1, 128, 512, 1023}

Units == <<"B", "KB", "MB", "GB", "TB">>

\* the integer written by the digits d
RECURSIVE ValueOf(_)
ValueOf(d) == IF d = <<>> THEN 0 ELSE Head(d) + Base * ValueOf(Tail(d))

\* the digits of 100 * d + carry
RECURSIVE Times100(_, _)
Times100(d, carry) ==
    IF d = <<>>
    THEN IF carry = 0 THEN <<>> ELSE <<carry>>
    ELSE LET t == 100 * Head(d) + carry
         IN  <<t % Base>> \o Times100(Tail(d), t \div Base)

\* size < 1024.0, size being the digits d after k divisions by 1024.0
Below1024(d, k) == \A j \in DOMAIN d : j > k + 1 => d[j] = 0

\* the whole hundredths in d / 1024^k
Hundredths(d, k) ==
    LET m == Times100(d, 0)
    IN  ValueOf(SubSeq(m, k + 1, Len(m)))

\* what is left of d / 1024^k below its whole hundredths, against half a
\* hundredth
Remainder(d, k) ==
    LET m == Times100(d, 0)
        top == IF k >= 1 /\ k <= Len(m) THEN m[k] ELSE 0
        low == \E j \in 1..(k - 1) : j <= Len(m) /\ m[j] # 0
    IN  IF top > Base \div 2 \/ (top = Base \div 2 /\ low) THEN "above"
        ELSE IF top = Base \div 2 THEN "half"
        ELSE IF top = 0 /\ ~low THEN "none"
        ELSE "below"

\* f"{size:.2f}" in hundredths: the nearest, a half going to the even one
Format(d, k) ==
    LET h == Hundredths(d, k)
        r == Remainder(d, k)
    IN  IF r = "above" \/ (r = "half" /\ h % 2 = 1) THEN h + 1 ELSE h

\* the for loop from its j-th unit on, size having been divided j - 1 times
RECURSIVE Loop(_, _)
Loop(d, j) ==
    IF j > Len(Units)
    THEN [number |-> Format(d, j - 1), unit |-> "TB"]
    ELSE IF Below1024(d, j - 1)
         THEN [number |-> Format(d, j - 1), unit |-> Units[j]]
         ELSE Loop(d, j + 1)

human_readable_size(d) == Loop(d, 1)

\* d has no leading zero digit
Canonical(d) == Len(d) = 1 \/ d[Len(d)] # 0

\* d has at most 50 significant bits: its conversion to float is exact
Exact(d) == \A a, b \in {j \in DOMAIN d : d[j] # 0} : a - b <= 4

Sizes ==
    {d \in UNION {[1..n -> DigitVals] : n \in 1..MaxSizeDigits} :
        Canonical(d) /\ Exact(d)}

InitSize ==
    /\ token = TRUE
    /\ render = FALSE
    /\ web = "off"
    /\ main = "polling"
    /\ site \in MainSites
    /\ Idle
    /\ size \in Sizes
    /\ hrs = <<>>
    /\ update = NoUpdate
    /\ routed = [done |-> FALSE, to |-> {}]
    /\ http = <<>>

CallHumanReadableSize ==
    /\ hrs = <<>>
    /\ hrs' = human_readable_size(size)
    /\ UNCHANGED <<env, web, main, hmVars, bcVars, request, size, update,
                   routed, http>>

NextSize == CallHumanReadableSize

SpecSize == InitSize /\ [][NextSize]_vars

\* the unit of the claim: the first of B .. TB in which the count is below
\* 1024, TB when there is none (as an index into Units)
ClaimedUnit(d) ==
    IF \E u \in 1..Len(Units) : Below1024(d, u - 1)
    THEN CHOOSE u \in 1..Len(Units) :
            /\ Below1024(d, u - 1)
            /\ \A v \in 1..(u - 1) : ~Below1024(d, v - 1)
    ELSE Len(Units)

\* the number n, in hundredths of the u-th unit, is within half a hundredth
\* of the count d
Reconstructs(d, u, n) ==
    LET h == Hundredths(d, u - 1)
        r == Remainder(d, u - 1)
    IN  CASE r = "none" -> n = h
          [] r = "below" -> n = h
          [] r = "half" -> n \in {h, h + 1}
          [] r = "above" -> n = h + 1

\* C11: for every byte count, the returned unit is the first of B, KB, MB,
\* GB, TB in which the count is below 1024 (TB when there is none), and the
\* returned number times that unit's power of 1024 is the count to within
\* half a hundredth of the unit, counts of 1024 TB and above included.
C11_UnitAndNumber ==
    hrs # <<>> =>
        /\ hrs.unit = Units[ClaimedUnit(size)]
        /\ Reconstructs(size, ClaimedUnit(size), hrs.number)

-----------------------------------------------------------------------------
(* The handlers registered on the application, and the dispatch of one
   update to them.  A text is a sequence of tokens: "/", a word, a blank or
   the "@name" that addresses a command to a bot. *)

MaxTextLen == 3

Words == {"start", "START", "help", "video"}

\* str.lower() on the words
Lower(w) == IF w = "START" THEN "start" ELSE w

Mentions == {"@this_bot", "@other_bot"}

Tokens == {"/", " "} \cup Words \cup Mentions

Texts == UNION {[1..n -> Tokens] : n \in 0..MaxTextLen}

\* a message (text <<>>: a message without text) or a pressed button
Updates ==
    {[kind |-> "message", text |-> t] : t \in Texts}
        \cup {[kind |-> "callback_query", text |-> <<>>]}

\* filters.TEXT: the update carries a message with a non-empty text
IsText(u) == u.kind = "message" /\ u.text # <<>>

\* filters.COMMAND: the text starts with a bot command, "/" and a word
IsCommand(u) ==
    /\ IsText(u)
    /\ Len(u.text) >= 2
    /\ u.text[1] = "/"
    /\ u.text[2] \in Words

\* the command is addressed to this bot: no "@name" follows it, or ours
ForThisBot(u) ==
    (Len(u.text) >= 3 /\ u.text[3] \in Mentions) => u.text[3] = "@this_bot"

\* CommandHandler(command, _).check_update
CommandMatches(command, u) ==
    /\ IsCommand(u)
    /\ Lower(u.text[2]) = command
    /\ ForThisBot(u)

\* the handlers in the order of the add_handler calls, each with its test
Handlers == <<"start", "handle_message", "button_click">>

Matches(h, u) ==
    CASE h = "start" -> CommandMatches("start", u)
      [] h = "handle_message" -> IsText(u) /\ ~IsCommand(u)
      [] h = "button_click" -> u.kind = "callback_query"

\* all three handlers are in one group: the first that matches runs, alone
Dispatch(u) ==
    LET ms == {j \in DOMAIN Handlers : Matches(Handlers[j], u)}
    IN  IF ms = {} THEN {}
        ELSE {Handlers[CHOOSE j \in ms : \A k \in ms : j <= k]}

InitDispatch ==
    /\ token = TRUE
    /\ render = FALSE
    /\ web = "off"
    /\ main = "polling"
    /\ site \in MainSites
    /\ Idle
    /\ size = <<0>>
    /\ hrs = <<>>
    /\ update \in Updates
    /\ routed = [done |-> FALSE, to |-> {}]
    /\ http = <<>>

ProcessUpdate ==
    /\ main = "polling"
    /\ ~routed.done
    /\ routed' = [done |-> TRUE, to |-> Dispatch(update)]
    /\ UNCHANGED <<env, web, main, hmVars, bcVars, request, size, hrs, update,
                   http>>

NextDispatch == ProcessUpdate

SpecDispatch == InitDispatch /\ [][NextDispatch]_vars

\* a command for this bot whose name is one of names
CommandNamed(names, u) ==
    /\ IsCommand(u)
    /\ Lower(u.text[2]) \in names
    /\ ForThisBot(u)

\* C12: every update is routed to at most one handler: a start or help
\* command to start, any other non-command text message to handle_message,
\* a pressed button to button_click, and any other command to no handler.
C12_Routing ==
    routed.done =>
        /\ Cardinality(routed.to) <= 1
        /\ CommandNamed({"start", "help"}, update) => routed.to = {"start"}
        /\ (IsText(update) /\ ~IsCommand(update)) =>
                routed.to = {"handle_message"}
        /\ update.kind = "callback_query" => routed.to = {"button_click"}
        /\ (IsCommand(update) /\ ~CommandNamed({"start", "help"}, update)) =>
                routed.to = {}

-----------------------------------------------------------------------------
(* The liveness server: SimpleHTTPRequestHandler defines do_GET and nothing
   else, so BaseHTTPRequestHandler answers every other method itself. *)

MaxRequests == 2

Methods == {"GET", "HEAD", "POST", "PUT", "DELETE", "OPTIONS"}

Paths == {"/", "/health", "/favicon.ico"}

\* the methods the handler class defines a do_ method for
Defined == {"GET"}

\* do_GET: send_response(200), end_headers(), the fixed body; the path is
\* not looked at
do_GET(path) == [status |-> 200, body |-> "Bot is running!"]

\* BaseHTTPRequestHandler.send_error(501) for a method without a do_ method;
\* the error page is left out of the answer to a HEAD
Unsupported(method) ==
    [status |-> 501,
     body |-> IF method = "HEAD" THEN "" ELSE "Unsupported method"]

\* handle_one_request
Respond(method, path) ==
    IF method \in Defined THEN do_GET(path) ELSE Unsupported(method)

\* the process in managed hosting, the server thread running and the bot
\* polling
InitHttp ==
    /\ token = TRUE
    /\ render = TRUE
    /\ web = "serving"
    /\ main = "polling"
    /\ site \in MainSites
    /\ Idle
    /\ AuxIdle

\* serve_forever takes one request and answers it
ServeRequest ==
    /\ web = "serving"
    /\ Len(http) < MaxRequests
    /\ \E m \in Methods, p \in Paths :
        http' = Append(http, [method |-> m, path |-> p,
                              response |-> Respond(m, p)])
    /\ UNCHANGED <<env, web, main, hmVars, bcVars, request, size, hrs, update,
                   routed>>

NextHttp == ServeRequest

SpecHttp == InitHttp /\ [][NextHttp]_vars

\* C13: every request the liveness server answered, whatever its path and
\* method, was answered with status 200 and the body "Bot is running!".
C13_AlwaysOk ==
    \A k \in DOMAIN http :
        /\ http[k].response.status = 200
        /\ http[k].response.body = "Bot is running!"

====
